---- MODULE Spec2Model ----
(***************************************************************************)
(* Model of the SWE-bench data point validator CLI                         *)
(* (src/swe_bench_validator/cli.py).                                       *)
(*                                                                         *)
(* Python text is a sequence of one-character strings.  A Python/JSON      *)
(* value is a record [t, s, l]: t is the type tag, s the text of a str     *)
(* (or of str(x) for a number), l the items of a list (or, for the         *)
(* _download_metadata dict, the value of its dataset_name key).  A         *)
(* datapoint dict is a record over Keys whose absent keys hold Absent.     *)
(***************************************************************************)
EXTENDS Integers, Sequences, FiniteSets, TLC

\* ---------------------------------------------------------------- bounds
MaxArgs == 2
MaxRuns == 2
MaxTextLen == 5
MaxListLen == 2
MaxIdLen == 1

\* ------------------------------------------------------- Python values
PyStr(chars) == [t |-> "str", s |-> chars, l |-> <<>>]
PyList(items) == [t |-> "list", s |-> <<>>, l |-> items]
PyInt(digits) == [t |-> "int", s |-> digits, l |-> <<>>]
PyNone == [t |-> "none", s |-> <<>>, l |-> <<>>]
\* a dict used as _download_metadata: l holds the value of "dataset_name"
\* (empty when the key is absent)
PyMeta(name) == [t |-> "dict", s |-> <<>>, l |-> name]
\* marks a key that is not in the dict
Absent == [t |-> "absent", s |-> <<>>, l |-> <<>>]

Has(dp, field) == dp[field].t # "absent"
isinstance(v, type) == v.t = type

Whitespace == {" ", "\t", "\n"}

RECURSIVE lstrip(_)
lstrip(s) ==
    IF s # <<>> /\ Head(s) \in Whitespace THEN lstrip(Tail(s)) ELSE s

startswith(s, prefix) ==
    /\ Len(s) >= Len(prefix)
    /\ SubSeq(s, 1, Len(prefix)) = prefix

contains(s, c) == \E i \in 1..Len(s) : s[i] = c

RECURSIVE Join(_, _)
Join(parts, sep) ==
    IF parts = <<>> THEN <<>>
    ELSE IF Len(parts) = 1 THEN parts[1]
    ELSE parts[1] \o sep \o Join(Tail(parts), sep)

RECURSIVE MapSeq(_, _)
MapSeq(Op(_), s) ==
    IF s = <<>> THEN <<>> ELSE <<Op(Head(s))>> \o MapSeq(Op, Tail(s))

\* ------------------------------------------------------ str(x), repr(x)
RECURSIVE ReprBody(_)
ReprBody(s) ==
    IF s = <<>> THEN <<>>
    ELSE (IF Head(s) = "\\" THEN <<"\\", "\\">> ELSE <<Head(s)>>)
         \o ReprBody(Tail(s))

RECURSIVE py_repr(_)
py_repr(v) ==
    IF v.t = "str" THEN <<"'">> \o ReprBody(v.s) \o <<"'">>
    ELSE IF v.t = "list"
         THEN <<"[">> \o Join(MapSeq(py_repr, v.l), <<",", " ">>) \o <<"]">>
    ELSE IF v.t = "none" THEN <<"N", "o", "n", "e">>
    ELSE v.s

py_str(v) == IF v.t = "str" THEN v.s ELSE py_repr(v)

\* ----------------------------------------------------------- json.loads
JsonWs == {" ", "\t", "\n", "\r"}

RECURSIVE SkipWs(_, _)
SkipWs(s, i) ==
    IF i <= Len(s) /\ s[i] \in JsonWs THEN SkipWs(s, i + 1) ELSE i

JsonFail == [ok |-> FALSE, val |-> PyNone, end |-> 0]

\* py_scanstring: s[i] is the first character after the opening quote
RECURSIVE ScanString(_, _, _)
ScanString(s, i, acc) ==
    IF i > Len(s) THEN JsonFail
    ELSE IF s[i] = "\"" THEN [ok |-> TRUE, val |-> PyStr(acc), end |-> i + 1]
    ELSE IF s[i] = "\\"
         THEN IF i + 1 <= Len(s) /\ s[i + 1] \in {"\"", "\\"}
              THEN ScanString(s, i + 2, Append(acc, s[i + 1]))
              ELSE JsonFail
    ELSE IF s[i] \in {"\t", "\n", "\r"} THEN JsonFail
    ELSE ScanString(s, i + 1, Append(acc, s[i]))

RECURSIVE ScanOnce(_, _)
RECURSIVE ScanArray(_, _, _)
\* scan_once: one JSON value starting exactly at s[i]
ScanOnce(s, i) ==
    IF i > Len(s) THEN JsonFail
    ELSE IF s[i] = "\"" THEN ScanString(s, i + 1, <<>>)
    ELSE IF s[i] = "["
         THEN LET j == SkipWs(s, i + 1)
              IN  IF j <= Len(s) /\ s[j] = "]"
                  THEN [ok |-> TRUE, val |-> PyList(<<>>), end |-> j + 1]
                  ELSE ScanArray(s, j, <<>>)
    ELSE JsonFail

\* JSONArray's loop: a value at s[i], then "]" or "," and the next value
ScanArray(s, i, acc) ==
    LET r == ScanOnce(s, i)
    IN  IF ~r.ok THEN JsonFail
        ELSE LET j == SkipWs(s, r.end)
             IN  IF j > Len(s) THEN JsonFail
                 ELSE IF s[j] = "]"
                      THEN [ok |-> TRUE, val |-> PyList(Append(acc, r.val)),
                            end |-> j + 1]
                 ELSE IF s[j] = ","
                      THEN ScanArray(s, SkipWs(s, j + 1), Append(acc, r.val))
                 ELSE JsonFail

\* json.loads(text): [ok, val]; ok = FALSE stands for JSONDecodeError
json_loads(text) ==
    LET r == ScanOnce(text, SkipWs(text, 1))
    IN  IF r.ok /\ SkipWs(text, r.end) = Len(text) + 1
        THEN [ok |-> TRUE, val |-> r.val]
        ELSE [ok |-> FALSE, val |-> PyNone]

\* ------------------------------------------------------ parse_list_field
parse_list_field_ReturnsRaw(v) ==
    IF isinstance(v, "list") THEN MapSeq(py_str, v.l)
    ELSE IF isinstance(v, "str") THEN <<v.s>>
    ELSE <<>>

parse_list_field(maybe_list_or_str) ==
    IF isinstance(maybe_list_or_str, "list")
    THEN MapSeq(py_str, maybe_list_or_str.l)
    ELSE IF isinstance(maybe_list_or_str, "str")
         THEN LET parsed == json_loads(maybe_list_or_str.s)
              IN  IF parsed.ok /\ isinstance(parsed.val, "list")
                  THEN MapSeq(py_str, parsed.val.l)
                  ELSE <<>>
    ELSE <<>>

\* ------------------------------------------------------------ datapoints
required_fields ==
    <<"repo", "instance_id", "base_commit", "patch", "FAIL_TO_PASS",
      "PASS_TO_PASS">>

Keys ==
    {"repo", "instance_id", "base_commit", "patch", "FAIL_TO_PASS",
     "PASS_TO_PASS", "_download_metadata"}

Chars_diff_git == <<"d", "i", "f", "f", " ", "-", "-", "g", "i", "t">>

Err(file, kind, field) == [file |-> file, kind |-> kind, field |-> field]

\* lines 66-68: one error per absent required field, in list order
RECURSIVE MissingErrors(_, _, _)
MissingErrors(dp, name, fields) ==
    IF fields = <<>> THEN <<>>
    ELSE (IF ~Has(dp, Head(fields))
          THEN <<Err(name, "missing required field", Head(fields))>>
          ELSE <<>>)
         \o MissingErrors(dp, name, Tail(fields))

\* lines 70-72
RepoErrors(dp, name) ==
    IF Has(dp, "repo") /\ isinstance(dp["repo"], "str") /\ ~contains(dp["repo"].s, "/")
    THEN <<Err(name, "repo must be in 'owner/repo' format", "")>>
    ELSE <<>>

\* lines 74-76
CommitErrors(dp, name) ==
    IF /\ Has(dp, "base_commit")
       /\ isinstance(dp["base_commit"], "str")
       /\ Len(dp["base_commit"].s) < 7
    THEN <<Err(name, "base_commit must be a valid git SHA", "")>>
    ELSE <<>>

\* lines 78-80
PatchErrors(dp, name) ==
    IF /\ Has(dp, "patch")
       /\ isinstance(dp["patch"], "str")
       /\ ~startswith(lstrip(dp["patch"].s), Chars_diff_git)
    THEN <<Err(name, "patch must start with 'diff --git'", "")>>
    ELSE <<>>

\* dp.get(field, []) followed by parse_list_field, stored back as a list
NormalizedList(dp, field) ==
    PyList(MapSeq(PyStr,
        parse_list_field(IF Has(dp, field) THEN dp[field] ELSE PyList(<<>>))))

validate_FirstMissingOnly(doc, name) ==
    LET dp == doc.dp
        m == MissingErrors(dp, name, required_fields)
    IN  [raised |-> doc.kind # "object",
         errors |-> (IF m = <<>> THEN <<>> ELSE <<m[1]>>) \o RepoErrors(dp, name)
                    \o CommitErrors(dp, name) \o PatchErrors(dp, name),
         dp |-> [dp EXCEPT !["FAIL_TO_PASS"] = NormalizedList(dp, "FAIL_TO_PASS"),
                           !["PASS_TO_PASS"] = NormalizedList(dp, "PASS_TO_PASS")]]

\* A file's parsed JSON is doc = [kind, dp]; for kind = "object" dp is the dict.
\* Any other JSON value (a list, a string, a number, null) makes the function
\* raise: `field not in dp` is a TypeError on numbers and null, and dp.get(...)
\* on line 83 an AttributeError on lists and strings.
validate_datapoint_schema(doc, name) ==
    LET dp == doc.dp
    IN  [raised |-> doc.kind # "object",
         errors |-> MissingErrors(dp, name, required_fields)
                    \o RepoErrors(dp, name)
                    \o CommitErrors(dp, name)
                    \o PatchErrors(dp, name),
         dp |-> [dp EXCEPT !["FAIL_TO_PASS"] = NormalizedList(dp, "FAIL_TO_PASS"),
                           !["PASS_TO_PASS"] = NormalizedList(dp, "PASS_TO_PASS")]]

\* lines 89-97
build_predictions(dps) ==
    [i \in 1..Len(dps) |->
        [instance_id |-> dps[i]["instance_id"],
         model_patch |-> dps[i]["patch"],
         model_name_or_path |-> "golden-patch-validator"]]

dataset_name_default == "SWE-bench/SWE-bench"

\* lines 100-105; raised stands for the AttributeError of meta.get when
\* _download_metadata is a truthy value that is not a dict
detect_dataset_name(dp, default) ==
    LET meta == dp["_download_metadata"]
        falsy == \/ meta.t \in {"absent", "none"}
                 \/ meta.t = "str" /\ meta.s = <<>>
                 \/ meta.t = "list" /\ meta.l = <<>>
    IN  IF falsy THEN [raised |-> FALSE, name |-> PyStr(<<>>), default |-> TRUE]
        ELSE IF meta.t # "dict"
             THEN [raised |-> TRUE, name |-> PyStr(<<>>), default |-> TRUE]
        ELSE IF meta.l # <<>> /\ isinstance(meta.l[1], "str") /\ meta.l[1].s # <<>>
             THEN [raised |-> FALSE, name |-> meta.l[1], default |-> FALSE]
        ELSE [raised |-> FALSE, name |-> PyStr(<<>>), default |-> TRUE]

\* ------------------------------------------------------- files and input
Names == {"a.json", "b.json"}
\* the names in the order sorted() gives them
SortedNames == <<"a.json", "b.json">>

\* A command-line argument: a bare file name, "data_points/<name>", or the
\* absolute path of <name> in the data_points directory.
Args ==
    [kind : {"bare", "dp"}, name : Names] \cup {[kind |-> "abs", name |-> "a.json"]}

SeqsUpTo(S, n) == UNION {[1..k -> S] : k \in 0..n}

EmptyDict == [k \in Keys |-> Absent]
Object(dp) == [kind |-> "object", dp |-> dp]
\* a file whose JSON is well formed but is not an object (here: a list)
NotObject == [kind |-> "not_object", dp |-> EmptyDict]
\* a file json.load rejects
InvalidJson == [kind |-> "invalid_json", dp |-> EmptyDict]
Unread == [kind |-> "unread", dp |-> EmptyDict]

Txt_repo == <<"o", "/", "r">>
Txt_sha7 == <<"a", "b", "c", "d", "e", "f", "0">>
Txt_id == <<"i", "1">>
Txt_a == <<"a">>
Txt_a_json == <<"[", "\"", "a", "\"", "]">>

GoodDict ==
    [k \in Keys |->
        CASE k = "repo" -> PyStr(Txt_repo)
          [] k = "instance_id" -> PyStr(Txt_id)
          [] k = "base_commit" -> PyStr(Txt_sha7)
          [] k = "patch" -> PyStr(Chars_diff_git)
          [] k = "FAIL_TO_PASS" -> PyList(<<PyStr(Txt_a)>>)
          [] k = "PASS_TO_PASS" -> PyList(<<>>)
          [] OTHER -> Absent]

\* the file contents the runs of main draw from
Docs ==
    { Object(GoodDict),
      Object([GoodDict EXCEPT !["FAIL_TO_PASS"] = PyStr(Txt_a_json),
                              !["_download_metadata"] = PyMeta(<<PyStr(<<"d">>)>>)]),
      Object([GoodDict EXCEPT !["repo"] = Absent, !["patch"] = Absent]),
      Object([GoodDict EXCEPT !["repo"] = PyStr(<<"o", "r">>),
                              !["base_commit"] = PyStr(<<"a", "b", "c">>),
                              !["patch"] = PyStr(<<"d", "i", "f", "f">>)]),
      Object([GoodDict EXCEPT !["repo"] = PyInt(<<"7">>)]),
      Object([GoodDict EXCEPT !["instance_id"] = PyInt(<<"7">>)]),
      Object([GoodDict EXCEPT !["_download_metadata"] = PyStr(<<"m">>)]),
      NotObject,
      InvalidJson }

\* every combination of these values of the required fields
FieldValues(k) ==
    CASE k = "repo" ->
            {Absent, PyStr(Txt_repo), PyStr(<<"o", "r">>), PyInt(<<"7">>)}
      [] k = "instance_id" -> {Absent, PyStr(Txt_id), PyInt(<<"7">>)}
      [] k = "base_commit" ->
            {Absent, PyStr(Txt_sha7), PyStr(<<"a", "b", "c", "d", "e", "f">>), PyNone}
      [] k = "patch" ->
            {Absent, PyStr(Chars_diff_git), PyStr(<<"\n", " ">> \o Chars_diff_git),
             PyStr(<<"d", "i", "f", "f">>), PyStr(<<"x">> \o Chars_diff_git),
             PyStr(<<>>), PyNone}
      [] k = "FAIL_TO_PASS" -> {Absent, PyList(<<PyStr(Txt_a)>>), PyStr(Txt_a_json)}
      [] k = "PASS_TO_PASS" -> {Absent, PyList(<<>>)}
      [] OTHER -> {Absent}

AllDocs ==
    { Object([k \in Keys |->
                CASE k = "repo" -> r
                  [] k = "instance_id" -> i
                  [] k = "base_commit" -> c
                  [] k = "patch" -> p
                  [] k = "FAIL_TO_PASS" -> f
                  [] k = "PASS_TO_PASS" -> q
                  [] OTHER -> Absent]) :
        r \in FieldValues("repo"), i \in FieldValues("instance_id"),
        c \in FieldValues("base_commit"), p \in FieldValues("patch"),
        f \in FieldValues("FAIL_TO_PASS"), q \in FieldValues("PASS_TO_PASS") }

\* ------------------------------------------------------------------ state
VARIABLES
    pc,                 \* where main is
    runs,               \* invocations of the CLI so far
    files, dry_run,     \* main's arguments
    dataDirExists,      \* root / "data_points" exists
    dataFiles,          \* the *.json files in it
    store,              \* contents of the data files read so far
    target_files, idx,  \* main's list and the position of its loop
    errs,               \* what validate_datapoint_schema returned last
    datapoints, structural_errors, predictions, dataset_name,
    harnessCalls,       \* harness processes started in this run
    completed,          \* how the harness process ended
    rc,                 \* what run_harness returned
    exit_code,          \* -1 while the process runs
    out,                \* what click.echo printed
    dirs,               \* directories under root that main or run_harness made
    predFile,           \* .validator_work/predictions_validate-gold.json
    listCase, nativeResult, encodedResult   \* the two forms of a list field

mainVars ==
    <<pc, runs, files, dry_run, dataDirExists, dataFiles, store,
      target_files, idx, errs, datapoints, structural_errors, predictions,
      dataset_name, harnessCalls, completed, rc, exit_code, out, dirs, predFile>>
listVars == <<listCase, nativeResult, encodedResult>>
vars == <<mainVars, listVars>>

WorkDir == ".validator_work"
HarnessDirs ==
    {"logs", "logs/build_images", "logs/run_evaluation", "evaluation_results"}
NoFile == [exists |-> FALSE, content |-> <<>>]
NoResult == [raised |-> FALSE, errors |-> <<>>, dp |-> EmptyDict]
NotCompleted == [timedOut |-> FALSE, returncode |-> -1]

\* ---------------------------------------------------------------- main
\* sys.exit(code) after echoing msgs
Exit(code, msgs) ==
    /\ pc' = "exited"
    /\ exit_code' = code
    /\ out' = out \o msgs

\* what a run starts from: the arguments and the data_points directory
StartRun(argSeqs, fileNames) ==
    /\ pc' = "click"
    /\ files' \in argSeqs
    /\ dry_run' \in BOOLEAN
    /\ dataDirExists' \in BOOLEAN
    /\ dataFiles' \in SUBSET fileNames
    /\ dataDirExists' = FALSE => dataFiles' = {}
    /\ store' = [n \in Names |-> Unread]
    /\ target_files' = <<>>
    /\ idx' = 0
    /\ errs' = NoResult
    /\ datapoints' = <<>>
    /\ structural_errors' = <<>>
    /\ predictions' = <<>>
    /\ dataset_name' = PyStr(<<>>)
    /\ harnessCalls' = 0
    /\ completed' = NotCompleted
    /\ rc' = -1
    /\ exit_code' = -1
    /\ out' = <<>>

\* click.Path(exists=True) on one argument, relative to the current directory
ClickPathExists(arg, cwd) ==
    IF arg.kind = "abs" THEN dataDirExists /\ arg.name \in dataFiles
    ELSE arg \in cwd

\* click's exit code for a UsageError (BadParameter: path does not exist)
ClickExitCode == 2

\* lines 182-187: click converts the arguments before main's body runs; cwd
\* is the set of relative arguments that name an existing path under the
\* current directory
ClickParse ==
    /\ pc = "click"
    /\ \E cwd \in SUBSET {files[i] : i \in 1..Len(files)} :
          /\ IF \A i \in 1..Len(files) : ClickPathExists(files[i], cwd)
             THEN /\ pc' = "main"
                  /\ UNCHANGED <<exit_code, out>>
             ELSE Exit(ClickExitCode, <<"Error: Invalid value for '[FILES]...': Path does not exist.">>)
    /\ UNCHANGED <<runs, files, dry_run, dataDirExists, dataFiles, store,
                   target_files, idx, errs, datapoints, structural_errors,
                   predictions, dataset_name, harnessCalls, completed, rc,
                   dirs, predFile, listVars>>

\* lines 233-237
CheckDataDir ==
    /\ pc = "main"
    /\ IF ~dataDirExists
       THEN Exit(1, <<"data_points directory not found">>)
       ELSE /\ pc' = "resolve"
            /\ UNCHANGED <<exit_code, out>>
    /\ UNCHANGED <<runs, files, dry_run, dataDirExists, dataFiles,
                   store, target_files, idx, errs, datapoints,
                   structural_errors, predictions, dataset_name, harnessCalls,
                   completed, rc, dirs, predFile, listVars>>

\* lines 243-251: every form of argument resolves to data_points/<name>
PathExists(arg) == arg.name \in dataFiles

\* lines 32-34
find_all_datapoints == SelectSeq(SortedNames, LAMBDA n : n \in dataFiles)

\* lines 240-260
ResolveTargets ==
    /\ pc = "resolve"
    /\ IF \E i \in 1..Len(files) : ~PathExists(files[i])
       THEN /\ Exit(1, <<"File not found">>)
            /\ UNCHANGED <<target_files, idx>>
       ELSE LET targets == IF files # <<>>
                           THEN [i \in 1..Len(files) |-> files[i].name]
                           ELSE find_all_datapoints
            IN  /\ target_files' = targets
                /\ IF targets = <<>>
                   THEN /\ Exit(0, <<"No datapoint files to validate.">>)
                        /\ UNCHANGED idx
                   ELSE /\ pc' = "load"
                        /\ idx' = 1
                        /\ UNCHANGED <<exit_code, out>>
    /\ UNCHANGED <<runs, files, dry_run, dataDirExists, dataFiles,
                   store, errs, datapoints, structural_errors, predictions,
                   dataset_name, harnessCalls, completed, rc, dirs, predFile,
                   listVars>>

\* lines 265-276, one iteration: the file's content is fixed the first time
\* it is read.  An exception other than load_json's leaves main: the
\* interpreter prints the traceback and the process ends with code 1.
LoadAndValidate(docs) ==
    /\ pc = "load"
    /\ idx <= Len(target_files)
    /\ LET path == target_files[idx]
       IN  \E doc \in (IF store[path] = Unread THEN docs ELSE {store[path]}) :
              /\ store' = [store EXCEPT ![path] = doc]
              /\ IF doc = InvalidJson
                 THEN /\ structural_errors' =
                            Append(structural_errors, Err(path, "invalid JSON", ""))
                      /\ idx' = idx + 1
                      /\ UNCHANGED <<pc, errs, datapoints, exit_code, out>>
                 ELSE LET res == validate_datapoint_schema(doc, path)
                      IN  /\ errs' = res
                          /\ IF res.raised
                             THEN /\ Exit(1, <<"Traceback (most recent call last)">>)
                                  /\ UNCHANGED <<idx, datapoints, structural_errors>>
                             ELSE /\ idx' = idx + 1
                                  /\ UNCHANGED <<pc, exit_code, out>>
                                  /\ IF res.errors # <<>>
                                     THEN /\ structural_errors' =
                                                structural_errors \o res.errors
                                          /\ UNCHANGED datapoints
                                     ELSE /\ datapoints' = Append(datapoints, res.dp)
                                          /\ UNCHANGED structural_errors
    /\ UNCHANGED <<runs, files, dry_run, dataDirExists, dataFiles,
                   target_files, predictions, dataset_name, harnessCalls,
                   completed, rc, dirs, predFile, listVars>>

after_validation_IgnoresDryRun(errors, dry) ==
    IF errors # <<>> THEN "exit 1" ELSE "build"

\* lines 278 and 285: what main does once every file has been checked
after_validation(errors, dry) ==
    IF errors # <<>> THEN "exit 1" ELSE IF dry THEN "exit 0" ELSE "build"

\* lines 278-287
Decide ==
    /\ pc = "load"
    /\ idx > Len(target_files)
    /\ LET todo == after_validation(structural_errors, dry_run)
       IN  IF todo = "exit 1"
           THEN Exit(1, <<"Structural validation errors found:">>
                         \o [i \in 1..Len(structural_errors) |-> "  - error"])
           ELSE IF todo = "exit 0"
                THEN Exit(0, <<"Structural validation passed for all provided datapoints (dry-run mode).">>)
                ELSE /\ pc' = "build"
                     /\ UNCHANGED <<exit_code, out>>
    /\ UNCHANGED <<runs, files, dry_run, dataDirExists, dataFiles,
                   store, target_files, idx, errs, datapoints,
                   structural_errors, predictions, dataset_name, harnessCalls,
                   completed, rc, dirs, predFile, listVars>>

\* lines 289-296: mkdir(exist_ok=True), then open(..., "w") and json.dump
WritePredictions ==
    /\ pc = "build"
    /\ predictions' = build_predictions(datapoints)
    /\ dirs' = dirs \cup {WorkDir}
    /\ predFile' = [exists |-> TRUE, content |-> build_predictions(datapoints)]
    /\ pc' = "dataset"
    /\ UNCHANGED <<runs, files, dry_run, dataDirExists, dataFiles,
                   store, target_files, idx, errs, datapoints,
                   structural_errors, dataset_name, harnessCalls, completed,
                   rc, exit_code, out, listVars>>

\* lines 299-312
PickDataset ==
    /\ pc = "dataset"
    /\ LET d == detect_dataset_name(datapoints[1], dataset_name_default)
       IN  IF d.raised
           THEN /\ Exit(1, <<"Traceback (most recent call last)">>)
                /\ UNCHANGED dataset_name
           ELSE /\ dataset_name' = d.name
                /\ pc' = "harness"
                /\ out' = Append(out, "Running harness")
                /\ UNCHANGED exit_code
    /\ UNCHANGED <<runs, files, dry_run, dataDirExists, dataFiles,
                   store, target_files, idx, errs, datapoints,
                   structural_errors, predictions, harnessCalls, completed,
                   rc, dirs, predFile, listVars>>

\* lines 108-150: the directories, the command line, and the child process.
\* subprocess.run raises TypeError on an argument that is not a str, which
\* an instance_id read from JSON can be; the directories are made by then.
StartHarness ==
    /\ pc = "harness"
    /\ dirs' = dirs \cup HarnessDirs
    /\ IF \E i \in 1..Len(datapoints) : ~isinstance(datapoints[i]["instance_id"], "str")
       THEN /\ Exit(1, <<"Traceback (most recent call last)">>)
            /\ UNCHANGED harnessCalls
       ELSE /\ harnessCalls' = harnessCalls + 1
            /\ pc' = "waiting"
            /\ UNCHANGED <<exit_code, out>>
    /\ UNCHANGED <<runs, files, dry_run, dataDirExists, dataFiles,
                   store, target_files, idx, errs, datapoints,
                   structural_errors, predictions, dataset_name, completed,
                   rc, predFile, listVars>>

\* the exit codes a harness process is let end with
ReturnCodes == {0, 1, 2, 137}

run_harness_rc_PropagatesTimeout(h) == h.returncode

\* lines 151-153 and 179: what run_harness returns
run_harness_rc(h) == IF h.timedOut THEN 2 ELSE h.returncode

\* lines 315-322
main_exit_code(r) == IF r # 0 THEN 2 ELSE 0

\* lines 141-179 and 313-322: the child ends or the timeout expires
HarnessEnds ==
    /\ pc = "waiting"
    /\ \E h \in [timedOut : {FALSE}, returncode : ReturnCodes]
               \cup {[timedOut |-> TRUE, returncode |-> -1]} :
          LET r == run_harness_rc(h)
          IN  /\ completed' = h
              /\ rc' = r
              /\ Exit(main_exit_code(r),
                      (IF h.timedOut
                       THEN <<"Harness execution timed out">>
                       ELSE <<"---- harness output (tail) ----">>)
                      \o (IF r # 0
                          THEN <<"Harness failed with exit code">>
                          ELSE <<"Validation successful for all provided datapoints.">>))
    /\ UNCHANGED <<runs, files, dry_run, dataDirExists, dataFiles,
                   store, target_files, idx, errs, datapoints,
                   structural_errors, predictions, dataset_name, harnessCalls,
                   dirs, predFile, listVars>>

\* the process is gone: its memory with it, the files under root stay
Terminate ==
    /\ pc = "exited"
    /\ pc' = "idle"
    /\ files' = <<>>
    /\ dry_run' = FALSE
    /\ dataDirExists' = FALSE
    /\ dataFiles' = {}
    /\ store' = [n \in Names |-> Unread]
    /\ target_files' = <<>>
    /\ idx' = 0
    /\ errs' = NoResult
    /\ datapoints' = <<>>
    /\ structural_errors' = <<>>
    /\ predictions' = <<>>
    /\ dataset_name' = PyStr(<<>>)
    /\ harnessCalls' = 0
    /\ completed' = NotCompleted
    /\ rc' = -1
    /\ exit_code' = -1
    /\ out' = <<>>
    /\ UNCHANGED <<runs, dirs, predFile, listVars>>

\* the CLI is invoked (again) on the same project root
NewRun ==
    /\ pc = "idle"
    /\ runs < MaxRuns
    /\ runs' = runs + 1
    /\ StartRun(SeqsUpTo(Args, MaxArgs), Names)
    /\ UNCHANGED <<dirs, predFile, listVars>>

NoListCase == [list |-> <<>>, text |-> <<>>, field |-> "FAIL_TO_PASS", base |-> EmptyDict]
NotValidated == [done |-> FALSE, res |-> NoResult]

\* before the first invocation: nothing has been written under root
Idle ==
    /\ pc = "idle"
    /\ runs = 0
    /\ files = <<>>
    /\ dry_run = FALSE
    /\ dataDirExists = FALSE
    /\ dataFiles = {}
    /\ store = [n \in Names |-> Unread]
    /\ target_files = <<>>
    /\ idx = 0
    /\ errs = NoResult
    /\ datapoints = <<>>
    /\ structural_errors = <<>>
    /\ predictions = <<>>
    /\ dataset_name = PyStr(<<>>)
    /\ harnessCalls = 0
    /\ completed = NotCompleted
    /\ rc = -1
    /\ exit_code = -1
    /\ out = <<>>
    /\ dirs = {}
    /\ predFile = NoFile

Init ==
    /\ Idle
    /\ listCase = NoListCase
    /\ nativeResult = NotValidated
    /\ encodedResult = NotValidated

Next ==
    \/ ClickParse
    \/ CheckDataDir
    \/ ResolveTargets
    \/ LoadAndValidate(Docs)
    \/ Decide
    \/ WritePredictions
    \/ PickDataset
    \/ StartHarness
    \/ HarnessEnds
    \/ Terminate
    \/ NewRun

Spec == Init /\ [][Next]_vars

\* ------------------------------------------ one run over one data file
\* The same program, invoked once with at most one file, whose content
\* ranges over every combination of field values.
OneFileDocs == AllDocs \cup {NotObject, InvalidJson}

NewRunOneFile ==
    /\ pc = "idle"
    /\ runs = 0
    /\ runs' = 1
    /\ StartRun(SeqsUpTo({[kind |-> "dp", name |-> "a.json"]}, 1), {"a.json"})
    /\ UNCHANGED <<dirs, predFile, listVars>>

NextV ==
    \/ NewRunOneFile
    \/ ClickParse
    \/ CheckDataDir
    \/ ResolveTargets
    \/ LoadAndValidate(OneFileDocs)
    \/ Decide
    \/ WritePredictions
    \/ PickDataset
    \/ StartHarness
    \/ HarnessEnds
    \/ Terminate

SpecV == Init /\ [][NextV]_vars

\* ------------------------------------- the two forms of a list field
JsonChars == {"[", "]", "\"", ",", "a", " ", "\\"}
IdChars == {"a", "\"", "\\"}

RECURSIVE JsonEscape(_)
JsonEscape(s) ==
    IF s = <<>> THEN <<>>
    ELSE (IF Head(s) \in {"\"", "\\"} THEN <<"\\", Head(s)>> ELSE <<Head(s)>>)
         \o JsonEscape(Tail(s))

JsonQuote(s) == <<"\"">> \o JsonEscape(s) \o <<"\"">>

\* json.dumps of a list of str, with the item separator ", " (the default)
\* or "," (separators=(",", ":"))
json_dumps(list, sep) == <<"[">> \o Join(MapSeq(JsonQuote, list), sep) \o <<"]">>

\* The JSON texts of lists over JsonChars, by the grammar of RFC 8259:
\* every text of at most n characters.
Spaces(n) == {[i \in 1..k |-> " "] : k \in 0..n}

StringUnits ==
    {<<c>> : c \in JsonChars \ {"\"", "\\"}} \cup {<<"\\", "\"">>, <<"\\", "\\">>}

RECURSIVE StringBodies(_)
StringBodies(n) ==
    {<<>>} \cup UNION {{u \o b : b \in StringBodies(n - Len(u))} :
                        u \in {v \in StringUnits : Len(v) <= n}}

StringTexts(n) ==
    IF n < 2 THEN {} ELSE {<<"\"">> \o b \o <<"\"">> : b \in StringBodies(n - 2)}

RECURSIVE ArrayTexts(_)
RECURSIVE ElementTexts(_)
PaddedValues(n) ==
    {t \in {a \o v \o b : a \in Spaces(n), b \in Spaces(n),
                          v \in StringTexts(n) \cup ArrayTexts(n)} : Len(t) <= n}

ElementTexts(n) ==
    IF n < 2 THEN {}
    ELSE PaddedValues(n)
         \cup UNION {{p \o <<",">> \o e : e \in ElementTexts(n - Len(p) - 1)} :
                      p \in PaddedValues(n - 3)}

ArrayTexts(n) ==
    IF n < 2 THEN {}
    ELSE {<<"[">> \o sp \o <<"]">> : sp \in Spaces(n - 2)}
         \cup {<<"[">> \o e \o <<"]">> : e \in ElementTexts(n - 2)}

JsonListTexts ==
    {t \in {a \o v \o b : a \in Spaces(MaxTextLen), b \in Spaces(MaxTextLen),
                          v \in ArrayTexts(MaxTextLen)} : Len(t) <= MaxTextLen}

Ids == SeqsUpTo(IdChars, MaxIdLen)
Lists == SeqsUpTo(Ids, MaxListLen)

BadDict == [GoodDict EXCEPT !["repo"] = PyStr(<<"o", "r">>), !["patch"] = Absent]

NativeDoc(c) ==
    Object([c.base EXCEPT ![c.field] = PyList(MapSeq(PyStr, c.list))])
EncodedDoc(c) == Object([c.base EXCEPT ![c.field] = PyStr(c.text)])

InitP ==
    /\ Idle
    /\ \/ \E l \in Lists, f \in {"FAIL_TO_PASS", "PASS_TO_PASS"}, b \in {GoodDict, BadDict},
             sep \in {<<",", " ">>, <<",">>} :
             listCase = [list |-> l, text |-> json_dumps(l, sep), field |-> f, base |-> b]
       \/ \E t \in SeqsUpTo(JsonChars, MaxTextLen) \ JsonListTexts,
             b \in {GoodDict, BadDict} :
             listCase = [list |-> <<>>, text |-> t, field |-> "FAIL_TO_PASS", base |-> b]
    /\ nativeResult = NotValidated
    /\ encodedResult = NotValidated

\* validate_datapoint_schema on the datapoint holding the native list
ValidateNative ==
    /\ ~nativeResult.done
    /\ nativeResult' =
          [done |-> TRUE, res |-> validate_datapoint_schema(NativeDoc(listCase), "a.json")]
    /\ UNCHANGED <<mainVars, listCase, encodedResult>>

\* validate_datapoint_schema on the datapoint holding the string
ValidateEncoded ==
    /\ ~encodedResult.done
    /\ encodedResult' =
          [done |-> TRUE, res |-> validate_datapoint_schema(EncodedDoc(listCase), "a.json")]
    /\ UNCHANGED <<mainVars, listCase, nativeResult>>

NextP == ValidateNative \/ ValidateEncoded

SpecP == InitP /\ [][NextP]_vars

\* ================================================================ claims
\* the schema of a datapoint as the data model states it
SchemaOK(dp) ==
    /\ \A i \in 1..Len(required_fields) : Has(dp, required_fields[i])
    /\ dp["repo"].t = "str" /\ \E i \in 1..Len(dp["repo"].s) : dp["repo"].s[i] = "/"
    /\ dp["base_commit"].t = "str" /\ Len(dp["base_commit"].s) >= 7
    /\ dp["patch"].t = "str"
    /\ \E k \in 0..Len(dp["patch"].s) :
          /\ \A j \in 1..k : dp["patch"].s[j] \in Whitespace
          /\ Len(dp["patch"].s) >= k + 10
          /\ SubSeq(dp["patch"].s, k + 1, k + 10) = Chars_diff_git

Missing(dp) == {f \in Keys \ {"_download_metadata"} : dp[f].t = "absent"}
FieldPos(f) == CHOOSE i \in 1..Len(required_fields) : required_fields[i] = f
ErrorsOfKind(errors, kind) == SelectSeq(errors, LAMBDA e : e.kind = kind)
HasError(errors, kind) == \E i \in 1..Len(errors) : errors[i].kind = kind
Printed(msg) == \E i \in 1..Len(out) : out[i] = msg

\* the only target file of a one-file run has been loaded and validated
OneFileValidated ==
    /\ Len(target_files) = 1
    /\ store[target_files[1]].kind = "object"
    /\ errs # NoResult

\* C1: every datapoint that reached build_predictions (and the predictions
\* file) has all six required fields, a string repo containing "/", a string
\* base_commit of length >= 7 and a string patch starting with "diff --git"
\* after the leading whitespace.
C1_OnlySchemaValidReachPredictions ==
    predictions # <<>> =>
        /\ Len(predictions) = Len(datapoints)
        /\ \A i \in 1..Len(datapoints) : SchemaOK(datapoints[i])

\* C2: when main has ended after it began loading, every target file was
\* loaded (no file stopped the later ones from being checked), every
\* unparsable file and every file with schema errors left an error, the
\* errors are in target-file order, and a non-empty error list means exit 1
\* with no predictions written and no harness started.
C2_EveryFileCheckedBeforeExit ==
    (pc = "exited" /\ idx >= 1) =>
        /\ \A k \in 1..Len(target_files) : store[target_files[k]] # Unread
        /\ \A k \in 1..Len(target_files) :
              (\/ store[target_files[k]] = InvalidJson
               \/ /\ store[target_files[k]].kind = "object"
                  /\ ~SchemaOK(store[target_files[k]].dp))
              => \E i \in 1..Len(structural_errors) :
                    structural_errors[i].file = target_files[k]
        /\ \A i, j \in 1..Len(structural_errors) :
              i < j => \E a, b \in 1..Len(target_files) :
                          /\ a <= b
                          /\ target_files[a] = structural_errors[i].file
                          /\ target_files[b] = structural_errors[j].file
        /\ structural_errors # <<>> =>
              exit_code = 1 /\ predictions = <<>> /\ harnessCalls = 0

\* C3: a run that ends because a named file is missing (click's check of the
\* argument, or main's check against data_points) or because the data_points
\* directory is absent ends with exit code 1 before any file is loaded.
C3_MissingPathExitsOne ==
    (/\ pc = "exited"
     /\ \/ Printed("Error: Invalid value for '[FILES]...': Path does not exist.")
        \/ Printed("File not found")
        \/ Printed("data_points directory not found"))
    => /\ exit_code = 1
       /\ idx = 0
       /\ \A n \in Names : store[n] = Unread

\* C4: once the harness was started, a timeout makes run_harness return 2
\* with the timeout message printed, and the process exits 2 exactly when
\* the harness timed out or returned non-zero, and 0 exactly when it
\* returned 0.
C4_HarnessResultDecidesExit ==
    (pc = "exited" /\ harnessCalls > 0) =>
        /\ completed.timedOut => rc = 2 /\ Printed("Harness execution timed out")
        /\ exit_code = 2 <=> (completed.timedOut \/ completed.returncode # 0)
        /\ exit_code = 0 <=> (~completed.timedOut /\ completed.returncode = 0)

C4_Witness_TimedOut ==
    pc = "exited" /\ harnessCalls = 1 /\ completed.timedOut /\ exit_code = 2

\* C5: no step of a dry run writes the predictions file, makes a directory
\* or starts the harness; a dry run whose target files are all valid by the
\* schema ends with exit code 0, and one with structural errors with 1.
C5_DryRunStopsAfterValidation ==
    [][(dry_run' /\ runs' = runs) =>
          /\ dirs' = dirs
          /\ predFile' = predFile
          /\ predictions' = <<>>
          /\ harnessCalls' = 0
          /\ (/\ pc' = "exited"
              /\ target_files' # <<>>
              /\ \A k \in 1..Len(target_files') :
                    /\ store'[target_files'[k]].kind = "object"
                    /\ SchemaOK(store'[target_files'[k]].dp))
             => exit_code' = 0
          /\ (pc' = "exited" /\ structural_errors' # <<>>) => exit_code' = 1]_vars

C5_Witness_DryRunOverEarlierArtifacts ==
    /\ dry_run /\ pc = "exited" /\ exit_code = 0
    /\ Len(datapoints) = 2
    /\ runs = 2 /\ predFile.exists

\* C6: for a datapoint lacking the non-empty set S of required fields the
\* validator returns exactly one "missing required field" error per field of
\* S, in the fixed field order and none for a present field, and main keeps
\* the datapoint out of the predictions.
C6_OneErrorPerMissingField ==
    (OneFileValidated /\ Missing(store[target_files[1]].dp) # {}) =>
        LET S == Missing(store[target_files[1]].dp)
            m == ErrorsOfKind(errs.errors, "missing required field")
        IN  /\ Len(m) = Cardinality(S)
            /\ {m[i].field : i \in 1..Len(m)} = S
            /\ \A i, j \in 1..Len(m) : i < j => FieldPos(m[i].field) < FieldPos(m[j].field)
            /\ \A i \in 1..Len(m) : m[i].file = target_files[1]
            /\ datapoints = <<>>
            /\ predictions = <<>>
            /\ ~predFile.exists

C6_Witness_ThreeMissing ==
    /\ OneFileValidated
    /\ Missing(store[target_files[1]].dp) = {"repo", "patch", "PASS_TO_PASS"}
    /\ pc = "exited" /\ exit_code = 1

\* C7: a datapoint whose repo value does not contain "/" gets the
\* "repo must be in 'owner/repo' format" error, whatever its other fields.
C7_RepoWithoutSlashIsAnError ==
    (/\ OneFileValidated
     /\ Has(store[target_files[1]].dp, "repo")
     /\ ~(/\ store[target_files[1]].dp["repo"].t = "str"
          /\ \E i \in 1..Len(store[target_files[1]].dp["repo"].s) :
                store[target_files[1]].dp["repo"].s[i] = "/"))
    => HasError(errs.errors, "repo must be in 'owner/repo' format")

\* C8: a datapoint with a patch value gets the "patch must start with
\* 'diff --git'" error exactly when the patch, leading whitespace trimmed,
\* does not begin with "diff --git".
C8_PatchErrorIffNoDiffPrefix ==
    (OneFileValidated /\ Has(store[target_files[1]].dp, "patch")) =>
        LET patch == store[target_files[1]].dp["patch"]
            begins == /\ patch.t = "str"
                      /\ \E k \in 0..Len(patch.s) :
                            /\ \A j \in 1..k : patch.s[j] \in Whitespace
                            /\ Len(patch.s) >= k + 10
                            /\ SubSeq(patch.s, k + 1, k + 10) = Chars_diff_git
        IN  HasError(errs.errors, "patch must start with 'diff --git'") <=> ~begins

\* C9: validating a datapoint whose list field is the JSON text of a list L
\* leaves the field equal to the sequence L, as validating it with the
\* native list does, with the same errors; a text that is no JSON list
\* leaves the empty sequence and adds no error.
C9_EncodedListEqualsNative ==
    (nativeResult.done /\ encodedResult.done) =>
        /\ ~nativeResult.res.raised /\ ~encodedResult.res.raised
        /\ nativeResult.res.dp[listCase.field].t = "list"
        /\ encodedResult.res.dp[listCase.field].t = "list"
        /\ Len(encodedResult.res.dp[listCase.field].l) = Len(listCase.list)
        /\ \A i \in 1..Len(listCase.list) :
              /\ encodedResult.res.dp[listCase.field].l[i].t = "str"
              /\ encodedResult.res.dp[listCase.field].l[i].s = listCase.list[i]
        /\ encodedResult.res.dp[listCase.field] = nativeResult.res.dp[listCase.field]
        /\ encodedResult.res.errors = nativeResult.res.errors

C9_Witness_TwoEscapedIds ==
    /\ nativeResult.done /\ encodedResult.done
    /\ listCase.list = <<<<"\"">>, <<"\\">>>>
    /\ Len(listCase.text) = 12
    /\ listCase.base = BadDict
    /\ encodedResult.res.errors # <<>>

\* C10: the working directory and the predictions file a run writes did not
\* exist before that run.
C10_WorkDirIsFresh ==
    [][(pc = "build" /\ pc' = "dataset") =>
          (WorkDir \notin dirs /\ ~predFile.exists)]_vars

====
